---- MODULE Spec2Model ----
(***************************************************************************)
(* Job orchestration of the voz-transcricao backend.                       *)
(*                                                                         *)
(* The repository holds several generations of the same Express server.   *)
(* A running server is one of them; `deploy` says which:                   *)
(*   part_000     src/unnamed/part_000 (and part_001): chunked             *)
(*                transcription only, no backend selection, no summary     *)
(*   part_002     src/unnamed/part_002: two candidate backends, selection  *)
(*                not guarded, summary                                     *)
(*   part_004     src/unnamed/part_004: four candidates, selection not     *)
(*                guarded, question formatting, summary                    *)
(*   server_1335  src/server.js 1335-1589: as part_004, no formatting      *)
(*   server_667   src/server.js 667-1256: selection guarded by try/catch,  *)
(*                formatting, summary, the two grading jobs                *)
(*   server_49    src/server.js 49-662: fixed model (getModel), reads that *)
(*                answer null on ENOENT, formatting, summary, grading jobs *)
(*   server_1     src/server.js 1-47: synchronous /transcribe (OpenAI)     *)
(*   server_1260  src/server.js 1260-1333: synchronous /transcribe         *)
(*                (Hugging Face)                                           *)
(*   part_003     src/unnamed/part_003: synchronous /transcribe with a     *)
(*                summary (Hugging Face)                                   *)
(*                                                                         *)
(* Node runs every handler and every continuation of an async function to *)
(* its next await without interleaving, so one action of this model is    *)
(* one such run: from the event that resumes the code to the next await   *)
(* (or to the end of the function).                                       *)
(***************************************************************************)
EXTENDS Integers, Sequences, FiniteSets, TLC

\* ---------------------------------------------------------------- bounds
MaxUnits == 2
MaxDamage == 1

\* longest provider reply to /generate-activity, in tokens
MaxReply == 5

\* the ids uuidv4() can give to jobs, and an id it never gave
JobIds == {1, 2}

UnknownId == 0

\* "__proto__": a property every object inherits, so jobs["__proto__"] is
\* Object.prototype although no job was ever stored under it
InheritedId == 3

Deployments ==
  {"part_000", "part_002", "part_004", "server_1335", "server_667", "server_49",
   "server_1", "server_1260", "part_003"}

\* the servers with the synchronous /transcribe endpoint only
SyncDeployments == {"server_1", "server_1260", "part_003"}

\* ------------------------------------------------- what each server has
HasSyncTranscribe(v) == v \in SyncDeployments

HasChunked(v) == v \notin SyncDeployments

HasSelection(v) == v \in {"part_002", "part_004", "server_1335", "server_667"}

SelectionGuarded(v) == v = "server_667"

HasSummary(v) == v # "part_000"

HasFormatting(v) == v \in {"part_004", "server_667", "server_49"}

HasPacing(v) == v # "part_000"

HasGrading(v) == v \in {"server_667", "server_49"}

\* the synchronous /verify-answers endpoint
HasVerifyAnswers(v) == v = "part_004"

EnoentIsNull(v) == v = "server_49"

CleanupGuarded(v) == v = "server_49"

IndexedPlaceholder(v) == v # "part_002"

NumCandidates(v) == IF v = "part_002" THEN 2 ELSE 4

\* ------------------------------------------------------------- progress
\* job.progress is a JavaScript number; (i+1)/n*100 is kept as the exact
\* fraction num/den, Math.round(...) results have den = 1.
P(n, d) == [num |-> n, den |-> d]

PLeq(a, b) == a.num * b.den <= b.num * a.den

PIs100(a) == a.num = 100 * a.den

\* Math.round((k / n) * 95): round half up of 95k/n
Round95(k, n) == (2 * 95 * k + n) \div (2 * n)

\* ----------------------------------------------------------------- text
\* A text is a sequence of words; a word carries the unit it came from.
Word(w, n) == [w |-> w, n |-> n]

Pergunta == Word("pergunta", 0)

Ponto == Word("ponto", 0)

LParen == Word("(", 0)

RParen == Word(")", 0)

\* what the provider may answer for the chunk file f
TextsFor(f) == { <<Word("fala", f)>>, <<Pergunta, Word("fala", f), Ponto>> }

\* `[ERRO NA TRANSCRIÇÃO DO TRECHO ${i + 1}]`, `[ERRO NA TRANSCRIÇÃO]`
ErrorPiece(v, k) ==
  IF IndexedPlaceholder(v) THEN <<Word("ERRO", k)>> ELSE <<Word("ERRO", 0)>>

\* fullTranscription.join(" ")
RECURSIVE Join(_)
Join(pieces) ==
  IF pieces = <<>> THEN <<>> ELSE Head(pieces) \o Join(Tail(pieces))

\* index of the first "ponto" at or after position b, 0 if none
RECURSIVE FirstPonto(_, _)
FirstPonto(s, b) ==
  IF b > Len(s) THEN 0
  ELSE IF s[b].w = "ponto" THEN b ELSE FirstPonto(s, b + 1)

\* fullText.replace(/(pergunta)(\s+)(.*?)(\s+)(ponto)/gi, '$1$2($3)$4$5'):
\* words are one blank apart, so a match is a "pergunta", at least one word,
\* and the first "ponto" after it; the words between are put in parentheses
\* and the scan goes on after the "ponto".
RECURSIVE FormatFrom(_, _)
FormatFrom(s, a) ==
  IF a > Len(s) THEN <<>>
  ELSE IF s[a].w # "pergunta" THEN <<s[a]>> \o FormatFrom(s, a + 1)
  ELSE LET b == FirstPonto(s, a + 2) IN
    IF b = 0 THEN <<s[a]>> \o FormatFrom(s, a + 1)
    ELSE <<s[a], LParen>> \o SubSeq(s, a + 1, b - 1) \o <<RParen, s[b]>>
           \o FormatFrom(s, b + 1)

FormatQuestions(s) == FormatFrom(s, 1)

\* ------------------------------------------------------------ job records
\* A registry record is a JavaScript object: `keys` are the properties it
\* has, `nulls` the ones set to null; the slot of a property the object
\* lacks holds the neutral value of its type.
Blank ==
  [keys |-> {}, nulls |-> {}, status |-> "", progress |-> P(0, 1),
   message |-> [text |-> "", i |-> 0, n |-> 0], transcription |-> <<>>, summary |-> "",
   results |-> <<>>, error |-> ""]

Absent == Blank

\* the handler with the registry write left to the ffmpeg callbacks
SplittingRecord_Missing(v) == Absent

\* jobs[jobId] = { status: "splitting", progress: 0 }
SplittingRecord(v) ==
  IF v = "part_000"
  THEN [Blank EXCEPT !.keys = {"status", "transcription", "progress"},
                     !.nulls = {"transcription"}, !.status = "splitting"]
  ELSE [Blank EXCEPT !.keys = {"status", "progress"}, !.status = "splitting"]

\* jobs[jobId] = { status: "failed", error: ... }
FailedRecord(msg) ==
  [Blank EXCEPT !.keys = {"status", "error"}, !.status = "failed",
                !.error = msg]

\* jobs[jobId] = { status: "completed", transcription, summary, progress: 100 }
CompletedRecord(v, text, summary) ==
  IF HasSummary(v)
  THEN [Blank EXCEPT !.keys = {"status", "transcription", "summary", "progress"},
                     !.status = "completed", !.transcription = text,
                     !.summary = summary, !.progress = P(100, 1)]
  ELSE [Blank EXCEPT !.keys = {"status", "transcription", "progress"},
                     !.status = "completed", !.transcription = text,
                     !.progress = P(100, 1)]

SplitError(v) ==
  IF v = "part_000" THEN "Erro ao dividir o arquivo de áudio."
  ELSE "Erro ao dividir o áudio."

SelectionError == "Nenhum modelo Gemini disponível no momento."

ReadError == "Erro ao ler arquivo"

SummaryPlaceholder(v) ==
  IF v = "part_002" THEN "[Erro ao gerar resumo]"
  ELSE "[Erro ao gerar resumo automático]"

\* ------------------------------------------------------------------ state
VARIABLES
  deploy,     \* which server is running
  jobs,       \* the registry: job id -> record (Absent when not there)
  task,       \* job id -> local variables and position of its pipeline task
  disk,       \* job id -> the files of the job that exist
  responded,  \* job id -> HTTP status answered to its submission (0: none)
  lastPoll,   \* the last GET /status/:jobId and its answer
  damage,     \* number of files removed or spoiled from outside so far
  slots       \* the ids of the requests the clients send in this run

vars == <<deploy, jobs, task, disk, responded, lastPoll, damage, slots>>

\* what had happened to a job when its submission was answered
NoAck == [reads |-> 0, calls |-> 0, progress |-> P(0, 1),
          message |-> [text |-> "", i |-> 0, n |-> 0]]

\* besides the locals of the code, a task keeps what it did so far: `reads`
\* counts the reads of unit files, `sent` lists the generateContent calls
\* on units (and, as unit 0, on the summary prompt) with the model used,
\* `selections` counts the runs of selecionarModeloDisponivel and `probes`
\* lists the outcomes of the canary calls of the latest run,
\* `summaryOutcome` says how the try of the summary stage ended, and
\* `selResult`, `chosen`, `selError` how the latest selection run ended:
\* it returned the model of candidate `chosen` or threw `selError`;
\* `resps` lists what the provider answered to the calls of a
\* multiple-choice job, one answer for each record pushed, and
\* `essayResps` the same for an essay job; `missing` says what the request
\* lacks: its file(s), a required form field, or nothing; `paced` says
\* whether a pacing timer has run out since the last call was issued, and
\* each entry of `sent` keeps its value at the time of the call; `http` is
\* the status a synchronous handler answered with (0: not yet); `lost`
\* tells that the upload was removed from outside the server; `reply` is
\* the provider's text for /generate-activity and `activity` the body the
\* endpoint answered with; `settled` counts the calls of `sent` whose
\* promise has settled
NoTask ==
  [kind |-> "none", pc |-> "none", ffmpeg |-> "none", seg |-> 0, files |-> <<>>, i |-> 0,
   acc |-> <<>>, text |-> <<>>, cand |-> 0, model |-> 0, key |-> <<>>,
   reads |-> 0, sent |-> <<>>, selections |-> 0, probes |-> <<>>, ack |-> NoAck,
   summaryOutcome |-> "none", selResult |-> "none", chosen |-> 0,
   selError |-> "", resps |-> <<>>, essayResps |-> <<>>, missing |-> "none",
   paced |-> FALSE, http |-> 0, lost |-> FALSE, reply |-> <<>>,
   settled |-> 0,
   activity |-> [keys |-> {}, text |-> <<>>, answers |-> <<>>]]

\* the model genAI.getGenerativeModel gives when no selection is made
FixedModel == 0

\* the summary prompt, as a unit of the `sent` list
SummaryUnit == 0

\* every call made on the model of the first candidate
Send_FirstCandidate(c, f, m) ==
  [c EXCEPT !.t.sent = Append(@, [unit |-> f, model |-> 1,
                                  paced |-> c.t.paced]),
            !.t.paced = FALSE]

\* model.generateContent([prompt, part]) is issued
Send(c, f, m) ==
  [c EXCEPT !.t.sent = Append(@, [unit |-> f, model |-> m,
                                  paced |-> c.t.paced]),
            !.t.paced = FALSE]

\* a call whose settling the loop does not wait for
Settle_NotAwaited(c) == c

\* the awaited model.generateContent(...) has settled (resolved or rejected)
Settle(c) == [c EXCEPT !.t.settled = @ + 1]

\* selecionarModeloDisponivel() is entered
StartSelection(c, pc) ==
  [c EXCEPT !.t.pc = pc, !.t.cand = 1, !.t.selections = @ + 1,
            !.t.probes = <<>>, !.t.selResult = "running", !.t.chosen = 0,
            !.t.selError = ""]

\* res.status(202).json({ jobId }) is sent
Ack(c) ==
  [c EXCEPT !.t.ack = [reads |-> c.t.reads, calls |-> Len(c.t.sent),
                       progress |-> c.r.progress, message |-> c.r.message]]

NoDisk == [src |-> FALSE, dir |-> FALSE, units |-> {}, bad |-> {}]

Init ==
  /\ deploy \in Deployments
  /\ jobs = [j \in JobIds |-> Absent]
  /\ task = [j \in JobIds |-> NoTask]
  /\ disk = [j \in JobIds |-> NoDisk]
  /\ responded = [j \in JobIds |-> 0]
  /\ lastPoll = [id |-> UnknownId, code |-> 0, body |-> "none"]
  /\ damage = 0
  /\ slots = {1}

\* the job's task, record and files, as one value the steps transform
Ctx(j) == [t |-> task[j], r |-> jobs[j], d |-> disk[j]]

\* every handler writing through one shared record
Commit_SharedRecord(j, c) ==
  /\ task' = [task EXCEPT ![j] = c.t]
  /\ jobs' = [k \in JobIds |-> c.r]
  /\ disk' = [disk EXCEPT ![j] = c.d]

Commit(j, c) ==
  /\ task' = [task EXCEPT ![j] = c.t]
  /\ jobs' = [jobs EXCEPT ![j] = c.r]
  /\ disk' = [disk EXCEPT ![j] = c.d]

Terminal(r) == r.status \in {"completed", "failed"}

TaskOver(t) == t.pc \in {"ended", "crashed"}

\* uuidv4(): an id no job has
FreeIds == {j \in slots : task[j].kind = "none"}

\* fs.readdirSync(outputDir).sort()
RECURSIVE SortedSeq(_)
SortedSeq(S) ==
  IF S = {} THEN <<>>
  ELSE LET m == CHOOSE x \in S : \A y \in S : x <= y
       IN <<m>> \o SortedSeq(S \ {m})


\* ------------------------------------------------------------------ files
\* fs.readFileSync(path): the file is there and readable, or not
ReadFile(d, f) ==
  IF f \notin d.units THEN "ENOENT"
  ELSE IF f \in d.bad THEN "EIO" ELSE "ok"

\* "part": the inline data; "null": server_49 answers null on ENOENT;
\* "throw": the read error (re)thrown
FileToGenerativePart(v, d, f) ==
  LET r == ReadFile(d, f) IN
  IF r = "ok" THEN "part"
  ELSE IF EnoentIsNull(v) /\ r = "ENOENT" THEN "null" ELSE "throw"

\* fs.rmSync(outputDir, { recursive: true, force: true })
RmOutputDir(d) == [d EXCEPT !.dir = FALSE, !.units = {}, !.bad = {}]

\* end of the 'end' handler: rmSync(outputDir); unlinkSync(filePath).
\* unlinkSync throws when the upload is gone: caught in server_49, an
\* unhandled rejection of the async handler elsewhere.
CleanupAfterEnd(v, c) ==
  LET d1 == RmOutputDir(c.d) IN
  IF d1.src
  THEN [c EXCEPT !.d = [d1 EXCEPT !.src = FALSE], !.t.pc = "ended"]
  ELSE [c EXCEPT !.d = d1,
                 !.t.pc = IF CleanupGuarded(v) THEN "ended" ELSE "crashed"]

\* the 'error' handler without its rmSync(outputDir)
CleanupAfterError_NoRm(c) ==
  [c EXCEPT !.d.src = FALSE, !.t.pc = "ended"]

\* 'error' handler: if (existsSync(filePath)) unlinkSync(filePath);
\*                  if (existsSync(outputDir)) rmSync(outputDir, ...)
CleanupAfterError(c) ==
  [c EXCEPT !.d = [RmOutputDir(c.d) EXCEPT !.src = FALSE], !.t.pc = "ended"]

\* ------------------------------------------- /transcribe-chunked pipeline
\* the summary stage writing the status "splitting" where it writes
\* "summarizing"
AfterChunks_BackToSplitting(v, c) ==
  LET fullText == Join(c.t.acc)
      formatted == IF HasFormatting(v) THEN FormatQuestions(fullText)
                   ELSE fullText
      c1 == [c EXCEPT !.t.text = formatted]
  IN
  IF ~HasSummary(v)
  THEN CleanupAfterEnd(v, [c1 EXCEPT !.r = CompletedRecord(v, formatted, "")])
  ELSE IF HasSelection(v)
  THEN StartSelection([c1 EXCEPT !.r.status = "splitting"], "probe2")
  ELSE Send([c1 EXCEPT !.r.status = "splitting", !.t.pc = "summary"],
            SummaryUnit, FixedModel)

\* the 'end' handler once the chunk loop is over: join, format, then the
\* summary stage (or, in part_000, completion and cleanup at once)
AfterChunks(v, c) ==
  LET fullText == Join(c.t.acc)
      formatted == IF HasFormatting(v) THEN FormatQuestions(fullText)
                   ELSE fullText
      c1 == [c EXCEPT !.t.text = formatted]
  IN
  IF ~HasSummary(v)
  THEN CleanupAfterEnd(v, [c1 EXCEPT !.r = CompletedRecord(v, formatted, "")])
  ELSE IF HasSelection(v)
  THEN StartSelection([c1 EXCEPT !.r.status = "summarizing"], "probe2")
  ELSE Send([c1 EXCEPT !.r.status = "summarizing", !.t.pc = "summary"],
            SummaryUnit, FixedModel)

\* the chunk loop from iteration i (0-based) up to its next await: a chunk
\* that cannot be read costs no await, so the loop goes on in the same run
RECURSIVE ChunkLoop(_, _, _)
ChunkLoop(v, c, i) ==
  IF i >= Len(c.t.files) THEN AfterChunks(v, [c EXCEPT !.t.i = i])
  ELSE LET f == c.t.files[i + 1]
           part == FileToGenerativePart(v, c.d, f)
           c1 == [c EXCEPT !.t.reads = @ + 1]
       IN
    CASE part = "null" -> ChunkLoop(v, c1, i + 1)
      [] part = "throw" ->
           ChunkLoop(v, [c1 EXCEPT !.t.acc = Append(@, ErrorPiece(v, i + 1))], i + 1)
      [] OTHER -> Send([c1 EXCEPT !.t.pc = "call", !.t.i = i], f, c.t.model)

\* the submission endpoints a server has
RequestKinds(v) ==
  (IF HasChunked(v) THEN {"transcribe"} ELSE {"sync"})
    \cup (IF HasGrading(v) THEN {"mc", "essay"} ELSE {})
    \cup (IF HasVerifyAnswers(v) THEN {"verify"} ELSE {})

\* multer (upload.single / upload.fields) has stored the files of a request
\* under uploads/; the route handler runs in a later turn
UploadStored(j) ==
  /\ j \in FreeIds
  /\ \A k \in FreeIds : j <= k
  /\ \/ /\ task' = [task EXCEPT ![j] =
                      [NoTask EXCEPT !.kind = IF HasChunked(deploy)
                                              THEN "transcribe" ELSE "sync",
                                     !.pc = "uploaded"]]
        /\ disk' = [disk EXCEPT ![j] = [NoDisk EXCEPT !.src = TRUE]]
     \/ /\ HasGrading(deploy)
        /\ \E kind \in {"mc", "essay"}, n \in 1..MaxUnits :
             /\ task' = [task EXCEPT ![j] = [NoTask EXCEPT !.kind = kind,
                                                           !.pc = "uploaded",
                                                           !.files = [k \in 1..n |-> k]]]
             /\ disk' = [disk EXCEPT ![j] = [NoDisk EXCEPT !.units = 1..n]]
     \/ /\ HasVerifyAnswers(deploy)
        /\ \E n \in 1..MaxUnits :
             /\ task' = [task EXCEPT ![j] = [NoTask EXCEPT !.kind = "verify",
                                                           !.pc = "uploaded",
                                                           !.files = [k \in 1..n |-> k]]]
             /\ disk' = [disk EXCEPT ![j] = [NoDisk EXCEPT !.src = TRUE,
                                                           !.units = 1..n]]
     \/ \E kind \in RequestKinds(deploy), what \in {"file", "field"} :
          /\ what = "field" => kind \in {"mc", "essay"}
          /\ task' = [task EXCEPT ![j] =
                        [NoTask EXCEPT !.kind = kind, !.pc = "uploaded",
                                       !.missing = what,
                                       !.files = IF what = "field" THEN <<1>>
                                                 ELSE <<>>]]
          /\ disk' = [disk EXCEPT ![j] =
                        [NoDisk EXCEPT !.src = (kind = "verify"),
                                       !.units = IF what = "field" THEN {1}
                                                 ELSE {}]]
  /\ UNCHANGED <<deploy, jobs, responded, lastPoll, damage, slots>>

\* the handler creating a failed record for the request it rejects
RejectSubmission_Records(j) ==
  /\ task[j].pc = "uploaded"
  /\ task[j].missing # "none"
  /\ responded' = [responded EXCEPT ![j] = 400]
  /\ task' = [task EXCEPT ![j].pc = "rejected"]
  /\ jobs' = [jobs EXCEPT ![j] = FailedRecord("400")]
  /\ UNCHANGED <<deploy, disk, lastPoll, damage, slots>>

\* the first lines of every submission handler: without req.file (or
\* req.files.studentSheet), or without a required field of the form, the
\* handler answers 400 and returns
RejectSubmission(j) ==
  /\ task[j].pc = "uploaded"
  /\ task[j].missing # "none"
  /\ responded' = [responded EXCEPT ![j] = 400]
  /\ task' = [task EXCEPT ![j].pc = "rejected"]
  /\ UNCHANGED <<deploy, jobs, disk, lastPoll, damage, slots>>

\* app.post("/transcribe-chunked"): mkdir outputDir, answer 202, create the
\* record, start ffmpeg
SubmitTranscribe(j) ==
  /\ task[j].kind = "transcribe"
  /\ task[j].pc = "uploaded"
  /\ task[j].missing = "none"
  /\ responded' = [responded EXCEPT ![j] = 202]
  /\ Commit(j, [Ack([Ctx(j) EXCEPT !.d.dir = TRUE])
                  EXCEPT !.t.pc = "splitting", !.t.ffmpeg = "running",
                         !.r = SplittingRecord(deploy)])
  /\ UNCHANGED <<deploy, lastPoll, damage, slots>>

\* ffmpeg writes the next chunk_%03d.mp3 into outputDir
FfmpegSegment(j) ==
  /\ task[j].pc = "splitting"
  /\ task[j].seg < MaxUnits
  /\ task' = [task EXCEPT ![j].seg = @ + 1]
  /\ disk' = [disk EXCEPT ![j].units = @ \cup {task[j].seg + 1}]
  /\ UNCHANGED <<deploy, jobs, responded, lastPoll, damage, slots>>

\* .on("end"): status processing, list the chunks, pick the model, and run
\* to the first await
FfmpegEnd(j) ==
  /\ task[j].pc = "splitting"
  /\ LET c0 == Ctx(j)
         c1 == [c0 EXCEPT !.r.status = "processing", !.t.ffmpeg = "end",
                          !.t.files = SortedSeq(c0.d.units)]
     IN Commit(j, IF HasSelection(deploy)
                  THEN StartSelection(c1, "probe1")
                  ELSE ChunkLoop(deploy, c1, 0))
  /\ UNCHANGED <<deploy, responded, lastPoll, damage, slots>>

\* .on("error"): the record is replaced by the failed one, files removed
FfmpegError(j) ==
  /\ task[j].pc = "splitting"
  /\ Commit(j, CleanupAfterError(
                 [Ctx(j) EXCEPT !.t.ffmpeg = "error",
                                !.r = FailedRecord(SplitError(deploy))]))
  /\ UNCHANGED <<deploy, responded, lastPoll, damage, slots>>

ProbeOutcomes == {"ok", "busy", "error", "noresponse"}

\* the guarded catch without its `return`: the handler goes on into the
\* chunk loop with the failed record in the registry
SelectionExhausted_NoReturn(v, c) ==
  IF c.t.pc = "probe2"
  THEN CleanupAfterEnd(v, [c EXCEPT !.t.summaryOutcome = "exhausted",
                                    !.r = CompletedRecord(v, c.t.text,
                                                          SummaryPlaceholder(v))])
  ELSE ChunkLoop(v, [c EXCEPT !.r = FailedRecord(SelectionError)], 0)

\* selecionarModeloDisponivel() throws: every candidate failed
SelectionExhausted(v, c) ==
  IF c.t.pc = "probe2"
  THEN \* inside the summary try: the catch completes the job
       CleanupAfterEnd(v, [c EXCEPT !.t.summaryOutcome = "exhausted",
                                    !.r = CompletedRecord(v, c.t.text,
                                                          SummaryPlaceholder(v))])
  ELSE IF SelectionGuarded(v)
  THEN \* catch (modelError): failed record, return
       [c EXCEPT !.r = FailedRecord(SelectionError),
                 !.t.pc = "ended"]
  ELSE \* no try around the await: the async handler rejects
       [c EXCEPT !.t.pc = "crashed"]

\* the catch rethrowing every error that is not a 429 or a 503
ProbeStep_OtherErrorThrows(v, c0, outcome) ==
  LET c == [c0 EXCEPT !.t.probes = Append(@, [cand |-> c0.t.cand,
                                              outcome |-> outcome])]
      got == [c EXCEPT !.t.selResult = "returned", !.t.chosen = c.t.cand]
  IN
  IF outcome = "ok"
  THEN IF c.t.pc = "probe1"
       THEN ChunkLoop(v, [got EXCEPT !.t.model = c.t.cand], 0)
       ELSE Send([got EXCEPT !.t.pc = "summary"], SummaryUnit, c.t.cand)
  ELSE IF c.t.cand < NumCandidates(v) /\ outcome # "error"
  THEN [c EXCEPT !.t.cand = @ + 1]
  ELSE SelectionExhausted(v, [c EXCEPT !.t.selResult = "threw",
                                       !.t.selError = SelectionError])

\* one canary call of selecionarModeloDisponivel returns: the first
\* candidate that answers with a response is the model, any other outcome
\* moves to the next candidate
ProbeStep(v, c0, outcome) ==
  LET c == [c0 EXCEPT !.t.probes = Append(@, [cand |-> c0.t.cand,
                                              outcome |-> outcome])]
      got == [c EXCEPT !.t.selResult = "returned", !.t.chosen = c.t.cand]
  IN
  IF outcome = "ok"
  THEN IF c.t.pc = "probe1"
       THEN ChunkLoop(v, [got EXCEPT !.t.model = c.t.cand], 0)
       ELSE Send([got EXCEPT !.t.pc = "summary"], SummaryUnit, c.t.cand)
  ELSE IF c.t.cand < NumCandidates(v)
  THEN [c EXCEPT !.t.cand = @ + 1]
  ELSE SelectionExhausted(v, [c EXCEPT !.t.selResult = "threw",
                                       !.t.selError = SelectionError])

ProbeReturns(j) ==
  /\ task[j].pc \in {"probe1", "probe2"}
  /\ \E outcome \in ProbeOutcomes : Commit(j, ProbeStep(deploy, Ctx(j), outcome))
  /\ UNCHANGED <<deploy, responded, lastPoll, damage, slots>>

\* model.generateContent for chunk i returned a text: push it, set the
\* progress, then the pacing timer (none in part_000)
ChunkDone(v, c, text) ==
  LET c1 == [c EXCEPT !.t.acc = Append(@, text),
                      !.r.progress = P((c.t.i + 1) * 100, Len(c.t.files))]
  IN IF HasPacing(v) THEN [c1 EXCEPT !.t.pc = "pace"]
     ELSE ChunkLoop(v, c1, c.t.i + 1)

\* a catch that tries the same chunk again
ChunkFailed_Retry(v, c) ==
  IF Len(c.t.sent) < MaxUnits + 1 THEN ChunkLoop(v, c, c.t.i)
  ELSE ChunkLoop(v, [c EXCEPT !.t.acc = Append(@, ErrorPiece(v, c.t.i + 1))],
                 c.t.i + 1)

\* it threw (or response.text() did): the catch pushes the placeholder and
\* the loop goes on at once
ChunkFailed(v, c) ==
  ChunkLoop(v, [c EXCEPT !.t.acc = Append(@, ErrorPiece(v, c.t.i + 1))], c.t.i + 1)

ChunkCallReturns(j) ==
  /\ task[j].kind = "transcribe"
  /\ task[j].pc = "call"
  /\ \/ \E text \in TextsFor(task[j].files[task[j].i + 1]) :
          Commit(j, ChunkDone(deploy, Settle(Ctx(j)), text))
     \/ Commit(j, ChunkFailed(deploy, Settle(Ctx(j))))
  /\ UNCHANGED <<deploy, responded, lastPoll, damage, slots>>

\* await new Promise(res => setTimeout(res, 2000)) is over
ChunkPacingElapsed(j) ==
  /\ task[j].kind = "transcribe"
  /\ task[j].pc = "pace"
  /\ Commit(j, ChunkLoop(deploy, [Ctx(j) EXCEPT !.t.paced = TRUE],
                          task[j].i + 1))
  /\ UNCHANGED <<deploy, responded, lastPoll, damage, slots>>

\* the catch of the summary stage replacing the record by a failed one
SummaryStep_FailsJob(v, c, ok) ==
  CleanupAfterEnd(v,
    IF ok
    THEN [c EXCEPT !.t.summaryOutcome = "ok",
                   !.r = CompletedRecord(v, c.t.text, "summaryText")]
    ELSE [c EXCEPT !.t.summaryOutcome = "threw",
                   !.r = FailedRecord(SummaryPlaceholder(v))])

\* summaryModel.generateContent(summaryPrompt) returned or threw
SummaryStep(v, c, ok) ==
  CleanupAfterEnd(v,
    IF ok
    THEN [c EXCEPT !.t.summaryOutcome = "ok",
                   !.r = CompletedRecord(v, c.t.text, "summaryText")]
    ELSE [c EXCEPT !.t.summaryOutcome = "threw",
                   !.r = CompletedRecord(v, c.t.text, SummaryPlaceholder(v))])

SummaryReturns(j) ==
  /\ task[j].pc = "summary"
  /\ \E ok \in BOOLEAN : Commit(j, SummaryStep(deploy, Settle(Ctx(j)), ok))
  /\ UNCHANGED <<deploy, responded, lastPoll, damage, slots>>

\* ------------------------------------------------------- grading pipelines
\* gabaritoString.split(',').map(s => s.trim().toUpperCase()), for the
\* answer keys "B,A,D" and "C"
Gabaritos == { <<"B", "A", "D">>, <<"C">> }

\* one entry of a details list: question number, detected letter ("-" when
\* the entry has no such property, "?" when ambiguous or illegible), and
\* the truthiness of its `correct` property
Entry(q, aluno, correct) == [q |-> q, aluno |-> aluno, correct |-> correct]

\* invalidDetails = gabaritoArray.map((_, i) => ({ q: i + 1, correct: false }))
InvalidDetails(key) == [k \in 1..Len(key) |-> Entry(k, "-", FALSE)]

AllRight(key) == [k \in 1..Len(key) |-> Entry(k, key[k], TRUE)]

\* what the provider may answer for one answer sheet: the call throws, the
\* text is no JSON, the JSON has no details, or it carries a details list
McResponses(key) ==
  { [kind |-> "throw", invalidated |-> FALSE, details |-> <<>>],
    [kind |-> "badjson", invalidated |-> FALSE, details |-> <<>>],
    [kind |-> "nodetails", invalidated |-> FALSE, details |-> <<>>],
    [kind |-> "json", invalidated |-> FALSE, details |-> AllRight(key)],
    [kind |-> "json", invalidated |-> FALSE,
     details |-> [AllRight(key) EXCEPT ![Len(key)] = Entry(Len(key), "A", FALSE)]],
    [kind |-> "json", invalidated |-> FALSE,
     details |-> [AllRight(key) EXCEPT ![1] = Entry(1, "?", TRUE)]],
    [kind |-> "json", invalidated |-> FALSE,
     details |-> [k \in 1..Len(key) |-> Entry(k, IF k = 2 THEN "C" ELSE key[k], k # 2)]],
    [kind |-> "json", invalidated |-> TRUE, details |-> AllRight(key)],
    [kind |-> "json", invalidated |-> FALSE,
     details |-> SubSeq(AllRight(key), 1, Len(key) - 1)],
    [kind |-> "json", invalidated |-> FALSE,
     details |-> Append(AllRight(key), Entry(Len(key) + 1, "A", TRUE))] }

\* aiResponse.details.filter(d => d.correct).length
CorrectCount(details) == Cardinality({k \in 1..Len(details) : details[k].correct})

\* the catch pushing an empty details list
McRecord_EmptyPlaceholder(f, key, resp) ==
  IF resp.kind = "json"
  THEN [fileName |-> f,
        grade |-> [c |-> CorrectCount(resp.details), t |-> Len(key)],
        details |-> resp.details]
  ELSE [fileName |-> f, grade |-> [c |-> 0, t |-> Len(key)],
        details |-> <<>>]

\* the record pushed for the image f: the grade counted from the details,
\* or the placeholder of the catch
McRecord(f, key, resp) ==
  IF resp.kind = "json"
  THEN [fileName |-> f,
        grade |-> [c |-> CorrectCount(resp.details), t |-> Len(key)],
        details |-> resp.details]
  ELSE [fileName |-> f, grade |-> [c |-> 0, t |-> Len(key)],
        details |-> InvalidDetails(key)]

EssayResponses == {"throw", "badjson", "incomplete", "graded"}

\* { fileName, nota: aiResponse.nota.toString(), feedback } or, in the
\* catch, { fileName, nota: "Erro", feedback: "A IA falhou ..." + message }
EssayRecord(f, resp) ==
  IF resp = "graded"
  THEN [fileName |-> f, nota |-> "8.5", feedback |-> "feedback"]
  ELSE [fileName |-> f, nota |-> "Erro", feedback |-> resp]

\* the record created with an empty results list
GradingRecord_EmptyResults(kind) ==
  [Blank EXCEPT !.keys = {"status", "progress", "message", "results"},
                !.status = "processing",
                !.message = [text |-> IF kind = "mc"
                                      THEN "Iniciando verificação..."
                                      ELSE "Iniciando correção dissertativa...",
                             i |-> 0, n |-> 0]]

\* jobs[jobId] = { status: "processing", progress: 0, message, results: null }
GradingRecord(kind) ==
  [Blank EXCEPT !.keys = {"status", "progress", "message", "results"},
                !.nulls = {"results"}, !.status = "processing",
                !.message = [text |-> IF kind = "mc"
                                      THEN "Iniciando verificação..."
                                      ELSE "Iniciando correção dissertativa...",
                             i |-> 0, n |-> 0]]

\* a cleanup put off to a later turn
GradeCleanup_Deferred(c) ==
  [c EXCEPT !.t.pc = "ended"]

\* finally: tempFilePaths.forEach(path => if (existsSync(path)) unlinkSync(path))
GradeCleanup(c) ==
  [c EXCEPT !.d.units = {}, !.d.bad = {}, !.t.pc = "ended"]

\* after the loop: status completed, progress 100, message, results
GradeFinish(c) ==
  GradeCleanup([c EXCEPT !.r.status = "completed",
                         !.r.progress = P(100, 1),
                         !.r.message = [text |-> "Correção concluída!", i |-> 0, n |-> 0],
                         !.r.results = c.t.acc,
                         !.r.nulls = @ \ {"results"}])

\* outer catch: status failed, error = error.message
GradeFail(c, msg) ==
  GradeCleanup([c EXCEPT !.r.status = "failed", !.r.error = msg,
                         !.r.keys = @ \cup {"error"}])

\* server_49 pre-processes each answer sheet with sharp before reading it
HasSharp(v, kind) == v = "server_49" /\ kind = "mc"

RECURSIVE GradeLoop(_, _, _)
RECURSIVE GradeRead(_, _, _)

\* the image loop from iteration i up to its next await
GradeLoop(v, c, i) ==
  IF i >= Len(c.t.files) THEN GradeFinish([c EXCEPT !.t.i = i])
  ELSE IF HasSharp(v, c.t.kind) /\ ReadFile(c.d, c.t.files[i + 1]) = "ok"
  THEN [c EXCEPT !.t.pc = "sharp", !.t.i = i, !.t.reads = @ + 1]
  ELSE GradeRead(v, c, i)

\* fileToGenerativePart(studentFile.path), progress and message, and the
\* provider call; a null part skips the image, a throw reaches the outer catch
GradeRead(v, c, i) ==
  LET f == c.t.files[i + 1]
      part == FileToGenerativePart(v, c.d, f)
      n == Len(c.t.files)
      c1 == [c EXCEPT !.t.reads = @ + 1]
  IN
  CASE part = "null" -> GradeLoop(v, c1, i + 1)
    [] part = "throw" -> GradeFail([c1 EXCEPT !.t.i = i], ReadError)
    [] OTHER ->
         Send([c1 EXCEPT !.t.pc = "call", !.t.i = i,
                         !.r.progress = P(Round95(i + 1, n), 1),
                         !.r.message = [text |-> IF c.t.kind = "mc"
                                                 THEN "Processando imagem"
                                                 ELSE "Corrigindo prova",
                                        i |-> i + 1, n |-> n]],
              f, FixedModel)

\* app.post("/start-verification"): the record, corrigirProvas up to its
\* first await, then the 202
SubmitVerification(j) ==
  /\ task[j].kind = "mc"
  /\ task[j].pc = "uploaded"
  /\ task[j].missing = "none"
  /\ \E key \in Gabaritos :
       Commit(j, Ack(GradeLoop(deploy, [Ctx(j) EXCEPT !.r = GradingRecord("mc"),
                                                      !.t.key = key], 0)))
  /\ responded' = [responded EXCEPT ![j] = 202]
  /\ UNCHANGED <<deploy, lastPoll, damage, slots>>

\* app.post("/start-dissertativa-correction")
SubmitDissertativa(j) ==
  /\ task[j].kind = "essay"
  /\ task[j].pc = "uploaded"
  /\ task[j].missing = "none"
  /\ Commit(j, Ack(GradeLoop(deploy, [Ctx(j) EXCEPT !.r = GradingRecord("essay")], 0)))
  /\ responded' = [responded EXCEPT ![j] = 202]
  /\ UNCHANGED <<deploy, lastPoll, damage, slots>>

\* sharp(buffer)...toBuffer() is over: on success writeFileSync overwrites
\* the upload; any failure is caught and only logged
SharpStep(v, c, ok) ==
  LET f == c.t.files[c.t.i + 1]
      d1 == IF ok /\ f \notin c.d.bad THEN [c.d EXCEPT !.units = @ \cup {f}]
            ELSE c.d
  IN GradeRead(v, [c EXCEPT !.d = d1], c.t.i)

SharpReturns(j) ==
  /\ task[j].pc = "sharp"
  /\ \E ok \in BOOLEAN : Commit(j, SharpStep(deploy, Ctx(j), ok))
  /\ UNCHANGED <<deploy, responded, lastPoll, damage, slots>>

\* model.generateContent for the image i is over: one record is pushed,
\* then the pacing timer
GradeStep(c, rec) ==
  [c EXCEPT !.t.acc = Append(@, rec), !.t.pc = "pace"]

GradeCallReturns(j) ==
  /\ task[j].kind \in {"mc", "essay"}
  /\ task[j].pc = "call"
  /\ LET f == task[j].files[task[j].i + 1] IN
     \/ /\ task[j].kind = "mc"
        /\ \E resp \in McResponses(task[j].key) :
             Commit(j, GradeStep(Settle([Ctx(j) EXCEPT !.t.resps = Append(@, resp)]),
                                 McRecord(f, task[j].key, resp)))
     \/ /\ task[j].kind = "essay"
        /\ \E resp \in EssayResponses :
             Commit(j, GradeStep(Settle([Ctx(j) EXCEPT !.t.essayResps = Append(@, resp)]),
                                 EssayRecord(f, resp)))
  /\ UNCHANGED <<deploy, responded, lastPoll, damage, slots>>

\* await new Promise(resolve => setTimeout(resolve, ...)) is over
GradePacingElapsed(j) ==
  /\ task[j].kind \in {"mc", "essay"}
  /\ task[j].pc = "pace"
  /\ Commit(j, GradeLoop(deploy, [Ctx(j) EXCEPT !.t.paced = TRUE],
                          task[j].i + 1))
  /\ UNCHANGED <<deploy, responded, lastPoll, damage, slots>>

\* ------------------------------------------- /verify-answers (part_004)
\* the scores "NOTA: X/Y" the provider may write in its answer
VerifyScores == { [c |-> 2, t |-> 3], [c |-> 1, t |-> 1] }

\* what the provider may answer for one sheet: the call throws, the text
\* has no "NOTA: X/Y", or it has one
VerifyResponses ==
  { [kind |-> "throw", score |-> [c |-> 0, t |-> 0]],
    [kind |-> "nomatch", score |-> [c |-> 0, t |-> 0]] }
  \cup { [kind |-> "nota", score |-> sc] : sc \in VerifyScores }

\* results.push({ fileName, grade: scoreMatch[1] }), or grade
\* "Erro na extração" / "Erro na IA" (kept in `note`)
VerifyRecord(f, resp) ==
  [fileName |-> f, grade |-> resp.score, details |-> <<>>,
   note |-> CASE resp.kind = "nota" -> ""
              [] resp.kind = "nomatch" -> "Erro na extração"
              [] OTHER -> "Erro na IA"]

\* finally: every temporary file (the key PDF and the images) is removed;
\* the handler has answered
VerifyFinish(c) ==
  [c EXCEPT !.d.src = FALSE, !.d.units = {}, !.d.bad = {}, !.t.pc = "ended"]

\* the image loop from iteration i up to its next await; a read error is
\* thrown outside the per-image try and reaches the outer catch
VerifyLoop(v, c, i) ==
  IF i >= Len(c.t.files) THEN VerifyFinish([c EXCEPT !.t.i = i])
  ELSE LET f == c.t.files[i + 1]
           c1 == [c EXCEPT !.t.reads = @ + 1, !.t.i = i]
       IN IF FileToGenerativePart(v, c.d, f) = "part"
          THEN Send([c1 EXCEPT !.t.pc = "call"], f, FixedModel)
          ELSE VerifyFinish(c1)

\* res.json({ individualGrades: results }) after the loop, or
\* res.status(500) in the outer catch; 0 while the handler has not answered
VerifyReply(c) ==
  IF c.t.pc # "ended" THEN 0
  ELSE IF c.t.i >= Len(c.t.files) THEN 200 ELSE 500

\* app.post("/verify-answers"): read the key PDF, then the loop up to the
\* first await
SubmitVerifyAnswers(j) ==
  /\ task[j].kind = "verify"
  /\ task[j].pc = "uploaded"
  /\ task[j].missing = "none"
  /\ \E key \in Gabaritos :
       LET c == VerifyLoop(deploy, [Ctx(j) EXCEPT !.t.key = key], 0) IN
       /\ Commit(j, c)
       /\ responded' = [responded EXCEPT ![j] = VerifyReply(c)]
  /\ UNCHANGED <<deploy, lastPoll, damage, slots>>

\* model.generateContent([prompt, teacherKeyPart, studentImagePart]) is
\* over: one record is pushed, then the pacing timer
VerifyCallReturns(j) ==
  /\ task[j].kind = "verify"
  /\ task[j].pc = "call"
  /\ \E resp \in VerifyResponses :
       Commit(j, GradeStep(Settle(Ctx(j)),
                           VerifyRecord(task[j].files[task[j].i + 1], resp)))
  /\ UNCHANGED <<deploy, responded, lastPoll, damage, slots>>

\* await new Promise(resolve => setTimeout(resolve, 1000)) is over
VerifyPacingElapsed(j) ==
  /\ task[j].kind = "verify"
  /\ task[j].pc = "pace"
  /\ LET c == VerifyLoop(deploy, [Ctx(j) EXCEPT !.t.paced = TRUE],
                         task[j].i + 1) IN
       /\ Commit(j, c)
       /\ responded' = [responded EXCEPT ![j] = VerifyReply(c)]
  /\ UNCHANGED <<deploy, lastPoll, damage, slots>>

\* ------------------------------------------------- synchronous /transcribe
\* what the transcription request may bring: the call throws (network, or
\* the SDK on an error status), an HTTP error status, a body that is not
\* JSON, a JSON body with an error property, or the transcription
SyncOutcomes == {"throw", "status503", "notjson", "jsonerror", "ok"}

\* the handler has answered with this HTTP status
SyncAnswer(c, code) == [c EXCEPT !.t.pc = "ended", !.t.http = code]

\* fs.unlinkSync(filePath)
SyncUnlink(c) == [c EXCEPT !.d.src = FALSE]

\* the transcription request is over, in each of the three servers
SyncTranscribed(v, c, o) ==
  CASE v = "server_1" ->
         \* the SDK throws on any failure: catch, 500; else unlink and ask
         \* for the summary
         IF o = "ok" THEN [SyncUnlink(c) EXCEPT !.t.pc = "syncSummary"]
         ELSE SyncAnswer(c, 500)
    [] v = "server_1260" ->
         CASE o = "throw" -> SyncAnswer(SyncUnlink(c), 500)
           [] o = "status503" -> SyncAnswer(c, 503)
           [] o = "notjson" -> SyncAnswer(c, 500)
           [] OTHER -> SyncAnswer(SyncUnlink(c), 200)
    [] OTHER ->
         \* part_003: every failure reaches the catch, and finally unlinks
         IF o = "ok"
         THEN [c EXCEPT !.t.pc = "syncSummary"]
         ELSE SyncAnswer(SyncUnlink(c), 500)

\* the summary request is over: answer 200, or 500 from the catch;
\* part_003 unlinks in its finally, server_1 did before the request
SyncSummarized(v, c, ok) ==
  SyncAnswer(IF v = "part_003" THEN SyncUnlink(c) ELSE c,
             IF ok THEN 200 ELSE 500)

\* app.post("/transcribe"): the upload is read and the transcription
\* request is sent
SubmitSync(j) ==
  /\ task[j].kind = "sync"
  /\ task[j].pc = "uploaded"
  /\ task[j].missing = "none"
  /\ Commit(j, [Ctx(j) EXCEPT !.t.pc = "syncCall"])
  /\ UNCHANGED <<deploy, responded, lastPoll, damage, slots>>

\* the transcription request (and the reading of its body) is over
SyncTranscriptionReturns(j) ==
  /\ task[j].pc = "syncCall"
  /\ \E o \in SyncOutcomes :
       LET c == SyncTranscribed(deploy, Ctx(j), o) IN
       /\ Commit(j, c)
       /\ responded' = [responded EXCEPT ![j] = c.t.http]
  /\ UNCHANGED <<deploy, lastPoll, damage, slots>>

\* the summary request is over
SyncSummaryReturns(j) ==
  /\ task[j].pc = "syncSummary"
  /\ \E ok \in BOOLEAN :
       LET c == SyncSummarized(deploy, Ctx(j), ok) IN
       /\ Commit(j, c)
       /\ responded' = [responded EXCEPT ![j] = c.t.http]
  /\ UNCHANGED <<deploy, lastPoll, damage, slots>>

\* ------------------------------------------------------ /generate-activity
\* the servers with the endpoint, and those that extract the answer key
HasActivity(v) == v \in {"part_002", "part_004", "server_1335", "server_667",
                          "server_49"}

HasAnswerKey(v) == v # "server_1335"

\* a reply is a string over: "M" the literal GABARITO:[ ; "]" ; "," ; a
\* space ; "nl" a line break ; the letters a (lower case) and B
ReplyTokens == {"M", "]", ",", " ", "nl", "a", "B"}

Replies == UNION {[1..n -> ReplyTokens] : n \in 0..MaxReply}

WhiteSpace == {" ", "nl"}

\* String.prototype.trim()
RECURSIVE TrimStart(_)
TrimStart(s) ==
  IF s # <<>> /\ Head(s) \in WhiteSpace THEN TrimStart(Tail(s)) ELSE s

RECURSIVE TrimEnd(_)
TrimEnd(s) ==
  IF s # <<>> /\ s[Len(s)] \in WhiteSpace
  THEN TrimEnd(SubSeq(s, 1, Len(s) - 1)) ELSE s

Trim(s) == TrimEnd(TrimStart(s))

\* String.prototype.toUpperCase()
ToUpperCase(s) == [k \in 1..Len(s) |-> IF s[k] = "a" THEN "A" ELSE s[k]]

\* String.prototype.split(sep)
RECURSIVE SplitOn(_, _)
SplitOn(s, sep) ==
  IF \E k \in 1..Len(s) : s[k] = sep
  THEN LET k == CHOOSE k \in 1..Len(s) :
                  s[k] = sep /\ \A h \in 1..(k - 1) : s[h] # sep
       IN <<SubSeq(s, 1, k - 1)>> \o SplitOn(SubSeq(s, k + 1, Len(s)), sep)
  ELSE <<s>>

\* the places where /GABARITO:\[(.*?)\]/i matches: from the literal to the
\* nearest "]" with no line break in between ("." matches no line break)
MatchesAt(s, p, q) ==
  /\ p < q
  /\ s[p] = "M"
  /\ s[q] = "]"
  /\ \A k \in (p + 1)..(q - 1) : s[k] \notin {"nl", "]"}

\* fullResponseText.match(/GABARITO:\[(.*?)\]/i): the leftmost match
GabaritoMatch(s) ==
  LET starts == {p \in 1..Len(s) : \E q \in 1..Len(s) : MatchesAt(s, p, q)} IN
  IF starts = {} THEN [found |-> FALSE, from |-> 0, to |-> 0, group |-> <<>>]
  ELSE LET p == CHOOSE p \in starts : \A p2 \in starts : p <= p2
           q == CHOOSE q \in 1..Len(s) : MatchesAt(s, p, q)
       IN [found |-> TRUE, from |-> p, to |-> q,
           group |-> SubSeq(s, p + 1, q - 1)]

\* res.json({ activityText, answers }) (server_1335: { activityText })
ActivityBody(v, s) ==
  LET m == GabaritoMatch(s) IN
  IF ~HasAnswerKey(v)
  THEN [keys |-> {"activityText"}, text |-> s, answers |-> <<>>]
  ELSE IF m.found /\ m.group # <<>>
  THEN [keys |-> {"activityText", "answers"},
        text |-> Trim(SubSeq(s, 1, m.from - 1) \o SubSeq(s, m.to + 1, Len(s))),
        answers |-> LET parts == SplitOn(m.group, ",") IN
                    [k \in 1..Len(parts) |-> ToUpperCase(Trim(parts[k]))]]
  ELSE [keys |-> {"activityText", "answers"}, text |-> s, answers |-> <<>>]

\* app.post("/generate-activity"): 400 without summaryText or options,
\* else the prompt is sent to the provider
ActivityRequest(j) ==
  /\ HasActivity(deploy)
  /\ j \in FreeIds
  /\ \E m \in {"none", "field"} :
       /\ task' = [task EXCEPT ![j] =
                     [NoTask EXCEPT !.kind = "activity", !.missing = m,
                                    !.pc = IF m = "none" THEN "activityCall"
                                           ELSE "rejected",
                                    !.http = IF m = "none" THEN 0 ELSE 400]]
       /\ responded' = [responded EXCEPT ![j] = IF m = "none" THEN 0 ELSE 400]
  /\ UNCHANGED <<deploy, jobs, disk, lastPoll, damage, slots>>

\* the provider has answered (model selection included), or thrown
ActivityReturns(j) ==
  /\ task[j].pc = "activityCall"
  /\ \/ \E s \in Replies :
          /\ task' = [task EXCEPT ![j] =
                        [@ EXCEPT !.pc = "ended", !.http = 200, !.reply = s,
                                  !.activity = ActivityBody(deploy, s)]]
          /\ responded' = [responded EXCEPT ![j] = 200]
     \/ /\ task' = [task EXCEPT ![j] = [@ EXCEPT !.pc = "ended", !.http = 500]]
        /\ responded' = [responded EXCEPT ![j] = 500]
  /\ UNCHANGED <<deploy, jobs, disk, lastPoll, damage, slots>>

\* --------------------------------------------------------- status endpoint
\* app.get("/status/:jobId"): 404 when jobs[jobId] is undefined, else the record
\* jobs = {} is a plain object: the lookup also finds inherited properties
Truthy(id) == \/ id \in JobIds /\ jobs[id] # Absent
              \/ id = InheritedId

StatusCode(id) == IF Truthy(id) THEN 200 ELSE 404

\* the body: { error: "Trabalho não encontrado." }, or res.json(job), which
\* for Object.prototype is {}
StatusBody(id) ==
  IF ~Truthy(id) THEN [kind |-> "error", job |-> Blank]
  ELSE IF id \in JobIds THEN [kind |-> "job", job |-> jobs[id]]
  ELSE [kind |-> "job", job |-> Blank]

PollIds == JobIds \cup {UnknownId, InheritedId}

Poll(id) ==
  /\ lastPoll' = [id |-> id, code |-> StatusCode(id),
                  body |-> IF StatusBody(id).kind = "error" THEN "error"
                           ELSE IF StatusBody(id).job.keys = {} THEN "empty"
                           ELSE "record"]
  /\ UNCHANGED <<deploy, jobs, task, disk, responded, damage, slots>>

\* ------------------------------------------------------------ environment
\* a unit file of a running job is removed, or made unreadable, from
\* outside the server (the uploads directory is an ordinary directory)
EnvDamage(j, f, how) ==
  /\ damage < MaxDamage
  /\ task[j].kind # "none"
  /\ ~TaskOver(task[j])
  /\ f \in disk[j].units
  /\ f \notin disk[j].bad
  /\ disk' = [disk EXCEPT ![j] = IF how = "unlink"
                                 THEN [@ EXCEPT !.units = @ \ {f}]
                                 ELSE [@ EXCEPT !.bad = @ \cup {f}]]
  /\ damage' = damage + 1
  /\ UNCHANGED <<deploy, jobs, task, responded, lastPoll, slots>>

\* the upload of a /transcribe-chunked job in progress is removed from
\* outside the server
EnvRemoveUpload(j) ==
  /\ damage < MaxDamage
  /\ task[j].kind = "transcribe"
  /\ task[j].pc \notin {"uploaded", "rejected"}
  /\ ~TaskOver(task[j])
  /\ disk[j].src
  /\ disk' = [disk EXCEPT ![j].src = FALSE]
  /\ task' = [task EXCEPT ![j].lost = TRUE]
  /\ damage' = damage + 1
  /\ UNCHANGED <<deploy, jobs, responded, lastPoll, slots>>

Next ==
  \/ \E j \in JobIds : UploadStored(j)
  \/ \E j \in JobIds : RejectSubmission(j)
  \/ \E j \in JobIds : SubmitTranscribe(j)
  \/ \E j \in JobIds : FfmpegSegment(j)
  \/ \E j \in JobIds : FfmpegEnd(j)
  \/ \E j \in JobIds : FfmpegError(j)
  \/ \E j \in JobIds : ProbeReturns(j)
  \/ \E j \in JobIds : ChunkCallReturns(j)
  \/ \E j \in JobIds : ChunkPacingElapsed(j)
  \/ \E j \in JobIds : SummaryReturns(j)
  \/ \E j \in JobIds : SubmitVerification(j)
  \/ \E j \in JobIds : SubmitDissertativa(j)
  \/ \E j \in JobIds : SharpReturns(j)
  \/ \E j \in JobIds : GradeCallReturns(j)
  \/ \E j \in JobIds : GradePacingElapsed(j)
  \/ \E j \in JobIds : SubmitVerifyAnswers(j)
  \/ \E j \in JobIds : VerifyCallReturns(j)
  \/ \E j \in JobIds : VerifyPacingElapsed(j)
  \/ \E j \in JobIds : SubmitSync(j)
  \/ \E j \in JobIds : SyncTranscriptionReturns(j)
  \/ \E j \in JobIds : SyncSummaryReturns(j)
  \/ \E j \in JobIds : EnvRemoveUpload(j)
  \/ \E id \in PollIds : Poll(id)
  \/ \E j \in JobIds, f \in 1..MaxUnits, how \in {"unlink", "spoil"} :
       EnvDamage(j, f, how)

Spec == Init /\ [][Next]_vars

\* ------------------------------------------------------ two jobs in flight
\* Two clients submit to one server, so that the steps of two pipeline
\* tasks and the polls interleave. The server is one with the
\* /transcribe-chunked pipeline only.
TwoJobDeployments == {"part_000"}

InitTwoJobs ==
  /\ deploy \in TwoJobDeployments
  /\ jobs = [j \in JobIds |-> Absent]
  /\ task = [j \in JobIds |-> NoTask]
  /\ disk = [j \in JobIds |-> NoDisk]
  /\ responded = [j \in JobIds |-> 0]
  /\ lastPoll = [id |-> UnknownId, code |-> 0, body |-> "none"]
  /\ damage = 0
  /\ slots = JobIds

NextTwoJobs ==
  \/ \E j \in JobIds : UploadStored(j)
  \/ \E j \in JobIds : RejectSubmission(j)
  \/ \E j \in JobIds : SubmitTranscribe(j)
  \/ \E j \in JobIds : FfmpegSegment(j)
  \/ \E j \in JobIds : FfmpegEnd(j)
  \/ \E j \in JobIds : FfmpegError(j)
  \/ \E j \in JobIds : ChunkCallReturns(j)
  \/ \E id \in PollIds : Poll(id)
  \/ \E j \in JobIds, f \in 1..MaxUnits, how \in {"unlink", "spoil"} :
       EnvDamage(j, f, how)

SpecTwoJobs == InitTwoJobs /\ [][NextTwoJobs]_vars

\* ------------------------------------------- the stateless activity endpoint
\* /generate-activity touches no job and no file: its requests form a
\* specification of their own, over every reply of at most MaxReply tokens
InitActivity == Init /\ HasActivity(deploy)

NextActivity ==
  \/ \E j \in JobIds : ActivityRequest(j)
  \/ \E j \in JobIds : ActivityReturns(j)

SpecActivity == InitActivity /\ [][NextActivity]_vars


\* ================================================================ claims
SplitErrors == {SplitError(v) : v \in Deployments}

NoFiles(d) == ~d.src /\ ~d.dir /\ d.units = {}

\* C1: every accepted job eventually reaches completed or failed when the
\* splitter, the probes and the provider calls all return: since nothing
\* writes a record once its task is over, a task that is over has left its
\* job completed or failed.
C1_TaskOverIsTerminal ==
  \A j \in JobIds :
    (responded[j] = 202 /\ TaskOver(task[j])) => Terminal(jobs[j])

\* what a poll shows of the outcome of a job
Outcome(r) ==
  [status |-> r.status, transcription |-> r.transcription,
   summary |-> r.summary, results |-> r.results, error |-> r.error,
   keys |-> r.keys \ {"progress", "message"},
   nulls |-> r.nulls \ {"progress", "message"}]

\* C2: once a job is completed or failed, no step changes its status, its
\* result fields (transcription, summary, results) or its error.
C2_TerminalImmutable ==
  [][\A j \in JobIds :
       Terminal(jobs[j]) => Outcome(jobs'[j]) = Outcome(jobs[j])]_vars

\* a completed or failed job is polled after the task that ran it is over
C2_Witness ==
  \E j \in JobIds : /\ Terminal(jobs[j])
                    /\ TaskOver(task[j])
                    /\ lastPoll.id = j /\ lastPoll.code = 200

\* C3: a completed job has as many unit results in its aggregate as it has
\* unit artifacts (chunk files found, images uploaded).
C3_Completeness ==
  \A j \in JobIds :
    jobs[j].status = "completed" =>
      /\ Len(task[j].acc) = Len(task[j].files)
      /\ task[j].kind \in {"mc", "essay"} =>
           Len(jobs[j].results) = Len(task[j].files)

\* C4: a failure while handling one unit never moves the job to failed: a
\* failed job failed in the splitter or in backend selection.
C4_UnitFailureNotFatal ==
  \A j \in JobIds :
    jobs[j].status = "failed" =>
      jobs[j].error \in SplitErrors \cup {SelectionError}

\* C5: once the pipeline task of a completed or failed job has ended, no
\* artifact of the job (source file, workspace directory, unit files)
\* is left on disk.
C5_TerminalLeavesNoFiles ==
  \A j \in JobIds :
    (Terminal(jobs[j]) /\ TaskOver(task[j])) => NoFiles(disk[j])

\* C6: when ffmpeg reports an error the job is failed with a descriptive
\* error, the upload is deleted and neither chunk files nor the workspace
\* directory remain.
C6_SplitFailureCleansUp ==
  \A j \in JobIds :
    task[j].ffmpeg = "error" =>
      /\ jobs[j].status = "failed"
      /\ "error" \in jobs[j].keys
      /\ jobs[j].error \in SplitErrors
      /\ NoFiles(disk[j])

\* ffmpeg reported its error after it had written chunk files
C6_Witness ==
  \E j \in JobIds : task[j].ffmpeg = "error" /\ task[j].seg > 0

\* a record whose progress is a number in [0, 100]
ProgressReadable(r) ==
  /\ "progress" \in r.keys
  /\ "progress" \notin r.nulls
  /\ PLeq(P(0, 1), r.progress)
  /\ PLeq(r.progress, P(100, 1))

\* C7: the progress a poll reads is always a number in [0, 100] and never
\* decreases, also across the steps that replace the record.
C7_ProgressMonotone ==
  [][\A j \in JobIds :
       jobs'[j] # Absent =>
         /\ ProgressReadable(jobs'[j])
         /\ jobs[j] # Absent => PLeq(jobs[j].progress, jobs'[j].progress)]_vars

\* C8: progress is exactly 100 if and only if status is completed.
C8_HundredIffCompleted ==
  \A j \in JobIds :
    jobs[j] # Absent =>
      (("progress" \in jobs[j].keys /\ PIs100(jobs[j].progress))
         <=> jobs[j].status = "completed")

\* the results the unit at position k (file f) of a job can have
UnitResults(v, kind, key, k, f) ==
  CASE kind = "transcribe" -> TextsFor(f) \cup {ErrorPiece(v, k)}
    [] kind = "mc" -> {McRecord(f, key, resp) : resp \in McResponses(key)}
    [] OTHER -> {EssayRecord(f, resp) : resp \in EssayResponses}

\* C9: in a completed job the k-th unit result of the final aggregate is
\* the result, or the placeholder, of the k-th unit, for every k.
C9_Ordering ==
  \A j \in JobIds :
    jobs[j].status = "completed" =>
      LET t == task[j] IN
      /\ Len(t.acc) = Len(t.files)
      /\ \A k \in 1..Len(t.files) :
           t.acc[k] \in UnitResults(deploy, t.kind, t.key, k, t.files[k])
      /\ IF t.kind = "transcribe"
         THEN jobs[j].transcription =
                IF HasFormatting(deploy) THEN FormatQuestions(Join(t.acc))
                ELSE Join(t.acc)
         ELSE jobs[j].results = t.acc

\* C10: no client holds a jobId for which GET /status/{jobId} answers 404.
C10_AcknowledgedIsRegistered ==
  \A j \in JobIds : responded[j] = 202 => StatusCode(j) = 200

\* a client polled the job it was given
C10_Witness ==
  \E j \in JobIds : /\ responded[j] = 202
                    /\ lastPoll.id = j /\ lastPoll.code = 200

\* the message a record of a job of this kind starts with
InitialMessage(kind) ==
  IF kind \in {"mc", "essay"} THEN GradingRecord(kind).message
  ELSE Blank.message

\* C11: when the 202 of a submission is sent, no unit file of the job has
\* been read, no provider call has been issued, and the progress and the
\* message of the job are the initial ones.
C11_AckBeforeWork ==
  \A j \in JobIds :
    responded[j] = 202 =>
      /\ task[j].ack.reads = 0
      /\ task[j].ack.calls = 0
      /\ task[j].ack.progress = P(0, 1)
      /\ task[j].ack.message = InitialMessage(task[j].kind)

\* fullTranscription.join(" "), formatted where the server formats
FullText(v, acc) ==
  IF HasFormatting(v) THEN FormatQuestions(Join(acc)) ELSE Join(acc)

\* C12: when the summary stage of a /transcribe-chunked job fails (its
\* provider call, or the backend selection made for it), the job is
\* completed with progress 100, the transcription is the whole aggregated
\* text, only the summary holds a placeholder, and the job is not failed.
C12_SummaryFailureCompletes ==
  \A j \in JobIds :
    task[j].summaryOutcome \in {"threw", "exhausted"} =>
      /\ jobs[j].status = "completed"
      /\ "progress" \in jobs[j].keys /\ PIs100(jobs[j].progress)
      /\ "transcription" \in jobs[j].keys \ jobs[j].nulls
      /\ jobs[j].transcription = FullText(deploy, task[j].acc)
      /\ jobs[j].summary = SummaryPlaceholder(deploy)
      /\ "error" \notin jobs[j].keys

\* the selection made for the summary found no backend, after chunks had
\* been transcribed
C12_Witness ==
  \E j \in JobIds : /\ task[j].summaryOutcome = "exhausted"
                    /\ Len(jobs[j].transcription) > 1

\* every probe of the job's latest selection run failed
AllProbesFailed(v, t) ==
  /\ Len(t.probes) = NumCandidates(v)
  /\ \A k \in 1..Len(t.probes) : t.probes[k].outcome # "ok"

\* the unit calls among the calls a task issued
UnitCalls(t) == {k \in 1..Len(t.sent) : t.sent[k].unit # SummaryUnit}

\* C13: when the selection made before the unit work finds every
\* candidate failing, the job's record becomes failed with the one
\* aggregated error, and no unit of the job is sent to a provider.
C13_ExhaustionRecorded ==
  \A j \in JobIds :
    (task[j].selections = 1 /\ AllProbesFailed(deploy, task[j])) =>
      /\ jobs[j].status = "failed"
      /\ jobs[j].error = SelectionError
      /\ task[j].sent = <<>>

\* C14: selecionarModeloDisponivel probes the candidates in list order,
\* returns the first whose probe succeeds and probes none after it, and
\* throws its one error exactly when every candidate failed, whatever the
\* kind of each failure.
C14_SelectionFirstAvailable ==
  \A j \in JobIds :
    LET t == task[j]
        p == t.probes
    IN
    /\ \A k \in 1..Len(p) : p[k].cand = k
    /\ \A k \in 1..(Len(p) - 1) : p[k].outcome # "ok"
    /\ t.selResult = "running" =>
         /\ t.cand = Len(p) + 1
         /\ t.cand <= NumCandidates(deploy)
         /\ \A k \in 1..Len(p) : p[k].outcome # "ok"
    /\ t.selResult = "returned" =>
         /\ Len(p) >= 1
         /\ p[Len(p)].outcome = "ok"
         /\ t.chosen = Len(p)
    /\ t.selResult = "threw" <=> (t.selections > 0 /\ AllProbesFailed(deploy, t))
    /\ t.selError = (IF t.selResult = "threw" THEN SelectionError ELSE "")

\* a selection returned the third candidate after a reply without a
\* response and an error that is neither 429 nor 503
C14_Witness ==
  \E j \in JobIds :
    LET p == task[j].probes IN
    /\ task[j].selResult = "returned"
    /\ Len(p) = 3
    /\ p[1].outcome = "noresponse"
    /\ p[2].outcome = "error"

\* C15: selecionarModeloDisponivel is run once in the life of a
\* /transcribe-chunked job, and the backend it chose serves every provider
\* call of the job, the summary call included.
C15_SelectionOncePerJob ==
  \A j \in JobIds :
    task[j].kind = "transcribe" =>
      /\ task[j].selections <= 1
      /\ \A k \in 1..Len(task[j].sent) : task[j].sent[k].model = task[j].model

\* C16: every unit call of a job goes to the backend selected for the job,
\* which is the first candidate whose probe succeeded.
C16_UnitsUseSelected ==
  \A j \in JobIds :
    LET t == task[j] IN
    /\ \A k \in UnitCalls(t) : t.sent[k].model = t.model
    /\ (t.selections = 1 /\ t.selResult = "returned") =>
         /\ t.model = Len(t.probes)
         /\ t.probes[t.model].outcome = "ok"
         /\ \A k \in 1..(t.model - 1) : t.probes[k].outcome # "ok"
    /\ (UnitCalls(t) # {} /\ t.kind = "transcribe" /\ HasSelection(deploy)) =>
         t.model >= 1

\* the first two candidates failed, the third answered, and every chunk
\* of the job has been sent
C16_Witness ==
  \E j \in JobIds :
    LET t == task[j] IN
    /\ t.selections = 1
    /\ Len(t.probes) = 3
    /\ t.model = 3
    /\ Len(t.files) = MaxUnits
    /\ Cardinality(UnitCalls(t)) = MaxUnits

\* the job with this id was created and its id given to a client
Issued(id) == id \in JobIds /\ responded[id] = 202

\* C17: GET /status/{id} with an id no job was given answers 404 with an
\* error body, never an empty or default record; with the id of a job it
\* answers the job's current record.
C17_UnknownIdIs404 ==
  /\ (lastPoll.code # 0 /\ lastPoll.id \notin JobIds) =>
       (lastPoll.code = 404 /\ lastPoll.body = "error")
  /\ \A id \in PollIds :
       IF Issued(id)
       THEN StatusCode(id) = 200 /\ StatusBody(id) = [kind |-> "job", job |-> jobs[id]]
       ELSE id \in JobIds => StatusCode(id) = 404 /\ StatusBody(id).kind = "error"

\* the records of graded units: every record of a multiple-choice job, and
\* the records of /verify-answers that carry a score
GradedRecords(t) ==
  CASE t.kind = "mc" -> {t.acc[k] : k \in 1..Len(t.acc)}
    [] t.kind = "verify" -> {r \in {t.acc[k] : k \in 1..Len(t.acc)} : r.note = ""}
    [] OTHER -> {}

\* C18: the grade of every graded unit is the number of entries of the
\* unit's detail list marked correct over the answer key length, counted
\* by the server; for the key [B,A,D] and the details [correct, incorrect,
\* correct] it is 2/3.
C18_GradeCountedLocally ==
  \A j \in JobIds :
    \A r \in GradedRecords(task[j]) :
      r.grade = [c |-> CorrectCount(r.details), t |-> Len(task[j].key)]

\* the all-incorrect placeholder and the grade 0/N
IsZeroPlaceholder(r, key) ==
  /\ r.grade = [c |-> 0, t |-> Len(key)]
  /\ r.details = InvalidDetails(key)

\* C19: when the provider's answer for a unit flags it as invalidated, the
\* unit's recorded grade is 0/N and every entry of its recorded details is
\* incorrect, whatever the entries of the answer say.
C19_InvalidatedIsZero ==
  \A j \in JobIds :
    \A k \in 1..Len(task[j].resps) :
      task[j].resps[k].invalidated =>
        /\ task[j].acc[k].grade = [c |-> 0, t |-> Len(task[j].key)]
        /\ \A q \in 1..Len(task[j].acc[k].details) :
             ~task[j].acc[k].details[q].correct

\* C20: when the details list of the provider's answer for a unit has
\* another length than the answer key, the unit's record is the
\* all-incorrect placeholder of answer-key length with grade 0/N.
C20_LengthMismatchIsError ==
  \A j \in JobIds :
    \A k \in 1..Len(task[j].resps) :
      (/\ task[j].resps[k].kind = "json"
       /\ Len(task[j].resps[k].details) # Len(task[j].key)) =>
        IsZeroPlaceholder(task[j].acc[k], task[j].key)

CountableEntries(details) ==
  {q \in 1..Len(details) : details[q].correct /\ details[q].aluno # "?"}

\* C22: an entry for a question with two options marked or an illegible
\* mark (detected letter "?") never adds to the unit's correct count,
\* whatever correctness flag the provider gave it, and raises no error.
C22_AmbiguousNeverCounts ==
  \A j \in JobIds :
    \A k \in 1..Len(task[j].resps) :
      task[j].resps[k].kind = "json" =>
        /\ task[j].acc[k].grade.c <= Cardinality(CountableEntries(task[j].resps[k].details))
        /\ jobs[j].status = "failed" => jobs[j].error = ReadError

\* C23: in essay grading, when the provider call for a unit fails or its
\* answer has no score and feedback, the unit's record has the score "Erro"
\* and a feedback that tells the failure; the job is not failed, and once
\* completed its results have one record for each uploaded image.
C23_EssaySentinel ==
  \A j \in JobIds :
    LET t == task[j] IN
    (\E k \in 1..Len(t.essayResps) : t.essayResps[k] # "graded") =>
      /\ \A k \in 1..Len(t.essayResps) :
           t.essayResps[k] # "graded" =>
             /\ t.acc[k].nota = "Erro"
             /\ t.acc[k].feedback \notin {"", "feedback"}
      /\ jobs[j].status # "failed"
      /\ jobs[j].status = "completed" => Len(jobs[j].results) = Len(t.files)

\* C24: a submission that lacks its file or a required field is answered
\* 400 and creates no job: no record is written for it, and nothing of a
\* pipeline (splitter, file read, selection, provider call) is started.
C24_InvalidSubmissionIs400 ==
  \A j \in JobIds :
    task[j].missing # "none" =>
      /\ responded[j] \in {0, 400}
      /\ responded[j] = 400 <=> task[j].pc = "rejected"
      /\ jobs = [k \in JobIds |-> Absent]
      /\ task[j].pc \in {"uploaded", "rejected"}
      /\ task[j].ffmpeg = "none"
      /\ task[j].reads = 0 /\ task[j].selections = 0 /\ task[j].sent = <<>>

\* a grading request with its images but without the answer key has been
\* answered 400, and a poll found no job
C24_Witness ==
  \E j \in JobIds :
    /\ task[j].missing = "field"
    /\ responded[j] = 400
    /\ lastPoll.id = j /\ lastPoll.code = 404

\* C25: between two consecutive unit calls of one job the pacing delay
\* runs out, whether the earlier call succeeded or failed.
C25_PacedCalls ==
  \A j \in JobIds :
    \A k \in UnitCalls(task[j]) :
      (\E h \in UnitCalls(task[j]) : h < k) => task[j].sent[k].paced

\* the place of a status in the order of the stages; no record is the
\* stage before all, completed and failed are the last
StageRank(status) ==
  CASE status = "" -> 0
    [] status = "splitting" -> 1
    [] status = "processing" -> 2
    [] status = "summarizing" -> 3
    [] OTHER -> 4

StatusValues == {"", "splitting", "processing", "summarizing", "completed", "failed"}

\* C26: every change of a job's status goes forward in the order
\* splitting, processing, summarizing, completed, or goes to failed from a
\* status that is neither completed nor failed; completed and failed are
\* never left.
C26_StatusOrder ==
  [][\A j \in JobIds :
       /\ jobs'[j].status \in StatusValues
       /\ jobs'[j].status # jobs[j].status =>
            /\ ~Terminal(jobs[j])
            /\ StageRank(jobs'[j].status) > StageRank(jobs[j].status)]_vars

\* a job went through splitting, processing and summarizing to completed
C26_Witness ==
  \E j \in JobIds : /\ jobs[j].status = "completed"
                    /\ task[j].summaryOutcome = "ok"
                    /\ task[j].ffmpeg = "end"

\* the properties of a record that hold a value (present and not null)
Populated(r) == r.keys \ r.nulls

\* C27: in every state of a record, transcription, summary and results
\* hold a value only if status is completed, and error holds a value only
\* if status is failed.
C27_ResultsOnlyWhenDone ==
  \A j \in JobIds :
    /\ Populated(jobs[j]) \cap {"transcription", "summary", "results"} # {} =>
         jobs[j].status = "completed"
    /\ "error" \in Populated(jobs[j]) => jobs[j].status = "failed"

\* a grading job failed and its results are still null
C27_Witness ==
  \E j \in JobIds : /\ jobs[j].status = "failed"
                    /\ "results" \in jobs[j].nulls
                    /\ "error" \in Populated(jobs[j])

\* C28: a /transcribe-chunked job is in processing (or beyond it, short of
\* failed) only with a non-empty list of chunks from the splitter.
C28_ProcessingHasChunks ==
  \A j \in JobIds :
    (/\ task[j].kind = "transcribe"
     /\ jobs[j].status \in {"processing", "summarizing", "completed"}) =>
      Len(task[j].files) > 0

\* C29: with several jobs in flight, the record of a job is written only
\* by steps of that job's own pipeline task: a step of another job's task
\* and a poll leave every field of it as it was.
C29_RecordOwnedByItsTask ==
  [][/\ \A a \in JobIds, b \in JobIds :
          (a # b /\ task'[a] # task[a]) => jobs'[b] = jobs[b]
     /\ \A b \in JobIds : jobs'[b] # jobs[b] => task'[b] # task[b]
     /\ lastPoll' # lastPoll => jobs' = jobs]_vars

\* two jobs are in flight at different stages, and the later one is polled
C29_Witness ==
  /\ jobs[1].status = "completed"
  /\ jobs[2].status = "processing"
  /\ Len(task[2].acc) = 1
  /\ lastPoll.id = 2 /\ lastPoll.code = 200

\* C30: for the synchronous /transcribe endpoint, once the response has
\* been sent (200, a provider error status, or 500) the uploaded file no
\* longer exists.
C30_SyncUploadDeleted ==
  \A j \in JobIds :
    (task[j].kind = "sync" /\ responded[j] \notin {0, 400}) => ~disk[j].src

\* C31: final cleanup is idempotent: when the upload is already absent the
\* cleanup at the end of a job raises no error, on the success path as
\* well as on the failure paths; the handler ends normally and the
\* terminal record stays as it was written.
C31_CleanupIdempotent ==
  \A j \in JobIds :
    (task[j].kind = "transcribe" /\ task[j].lost
       /\ jobs[j] # Absent /\ Terminal(jobs[j]))
      => task[j].pc = "ended"

\* C32: for every provider reply, /generate-activity answers with the
\* entries of the GABARITO:[...] marker, each trimmed and upper-cased, in
\* order, and with an activity text that no longer contains the marker;
\* a reply without a marker is answered whole, with no answers.
C32_ActivityAnswers ==
  \A j \in JobIds :
    (task[j].kind = "activity" /\ task[j].http = 200) =>
      LET s == task[j].reply
          b == task[j].activity
          m == GabaritoMatch(s)
      IN
      /\ "answers" \in b.keys
      /\ m.found =>
           /\ ~GabaritoMatch(b.text).found
           /\ b.answers =
                IF m.group = <<>> THEN <<>>
                ELSE LET parts == SplitOn(m.group, ",") IN
                     [k \in 1..Len(parts) |-> ToUpperCase(Trim(parts[k]))]
      /\ ~m.found => (b.text = s /\ b.answers = <<>>)

\* the request of task j is over: its handler and its background work
\* have ended (normally, by a 400, or by throwing)
RequestOver(j) == task[j].pc \in {"ended", "crashed", "rejected"}

\* C33: every file the upload layer stored for a request is deleted on
\* every path of that request, a 400 after the files were stored
\* included: once the request is over none of its uploaded files exists.
C33_UploadsDeleted ==
  \A j \in JobIds :
    RequestOver(j) =>
      /\ ~disk[j].src
      /\ task[j].kind \in {"mc", "essay", "verify"} => disk[j].units = {}

\* two progress values are the same number
SameProgress(a, b) == a.num * b.den = b.num * a.den

\* C34: in a /transcribe-chunked job with total > 0 chunks, once the chunk
\* of index i has been handled, by success or by failure, progress is
\* (i+1)/total * 100: while the call for chunk i is awaited (i >= 1)
\* progress is i/total * 100, and during the pause after chunk i it is
\* (i+1)/total * 100 (the last chunk, where a cap applies, left aside).
C34_ProgressAfterEachChunk ==
  \A j \in JobIds :
    LET t == task[j]
        n == Len(t.files)
    IN
    (t.kind = "transcribe" /\ jobs[j] # Absent
       /\ jobs[j].status = "processing" /\ "progress" \in jobs[j].keys) =>
      /\ (t.pc = "call" /\ t.i >= 1) =>
           SameProgress(jobs[j].progress, P(t.i * 100, n))
      /\ (t.pc = "pace" /\ t.i + 1 < n) =>
           SameProgress(jobs[j].progress, P((t.i + 1) * 100, n))

\* C35: in a grading job with total images, progress while status is
\* processing is round((i+1)/total * 95) for the image of index i being
\* handled (pre-processed, graded, or followed by its pause), hence never
\* above 95, and it is 100 only together with status completed.
C35_GradingProgress ==
  \A j \in JobIds :
    LET t == task[j]
        n == Len(t.files)
    IN
    (t.kind \in {"mc", "essay"} /\ jobs[j] # Absent) =>
      /\ jobs[j].status = "processing" =>
           /\ PLeq(jobs[j].progress, P(95, 1))
           /\ t.pc \in {"sharp", "call", "pace"} =>
                jobs[j].progress = P(Round95(t.i + 1, n), 1)
      /\ PIs100(jobs[j].progress) => jobs[j].status = "completed"

\* the piece is a placeholder for a chunk that could not be transcribed
IsErrorPiece(piece) == Len(piece) = 1 /\ piece[1].w = "ERRO"

\* C36: when the chunk at 1-based position k of a transcription job
\* fails, the aggregate holds at position k a placeholder that identifies
\* segment k: every placeholder of the aggregate names its own position.
C36_PlaceholderNamesSegment ==
  \A j \in JobIds :
    task[j].kind = "transcribe" =>
      \A k \in 1..Len(task[j].acc) :
        IsErrorPiece(task[j].acc[k]) => task[j].acc[k][1].n = k

\* the provider calls of a task that were issued and have not settled
InFlight(t) == Len(t.sent) - t.settled

\* C37: within one job at most one provider invocation is in flight at
\* any time, and the invocation for the next unit starts only after the
\* one before has returned or failed: a call is in flight exactly while
\* the job awaits it.
C37_OneCallInFlight ==
  \A j \in JobIds :
    /\ InFlight(task[j]) \in {0, 1}
    /\ InFlight(task[j]) = 1 <=> task[j].pc \in {"call", "summary"}

\* the call for a second unit is in flight, the first having settled
C37_Witness ==
  \E j \in JobIds :
    /\ Len(task[j].sent) = 2
    /\ task[j].sent[1].unit # task[j].sent[2].unit
    /\ task[j].sent[2].unit # SummaryUnit
    /\ task[j].settled = 1
    /\ task[j].pc = "call"

\* C39: within one job the provider is invoked at most once for each
\* unit: no unit appears twice among the calls the job issued, and the
\* calls follow the order of the units, so that none is invoked again
\* once the loop has moved past it.
C39_AtMostOneCallPerUnit ==
  \A j \in JobIds :
    LET t == task[j] IN
    \A h, k \in UnitCalls(t) :
      h < k =>
        /\ t.sent[h].unit # t.sent[k].unit
        /\ \E p, q \in 1..Len(t.files) :
             p < q /\ t.files[p] = t.sent[h].unit /\ t.files[q] = t.sent[k].unit

\* the call for the first unit failed and the second unit has been called
C39_Witness ==
  \E j \in JobIds :
    LET t == task[j] IN
    /\ t.kind = "transcribe"
    /\ Len(t.files) = 2
    /\ Len(t.acc) >= 1 /\ IsErrorPiece(t.acc[1])
    /\ Cardinality(UnitCalls(t)) = 2
    /\ t.reads = 2

\* C38: for a grading job the terminal status write and the deletion of
\* the uploaded images happen in one run, with no suspension point in
\* between: in every state where a poll can observe completed or failed
\* for a grading job, none of its uploaded images exists any more.
C38_TerminalMeansCleaned ==
  \A j \in JobIds :
    (task[j].kind \in {"mc", "essay"} /\ jobs[j] # Absent
       /\ Terminal(jobs[j])) =>
      disk[j].units = {}

\* a poll has read the terminal record of a grading job that had images
C38_Witness ==
  \E j \in JobIds :
    /\ task[j].kind \in {"mc", "essay"}
    /\ Len(task[j].files) >= 1
    /\ Terminal(jobs[j])
    /\ lastPoll.id = j /\ lastPoll.code = 200 /\ lastPoll.body = "record"
    /\ disk[j].units = {}

\* C40: in every record of a completed multiple-choice grading job the
\* grade c/t has 0 <= c <= t with t the length of the answer key, and the
\* record's detail list has exactly t entries, whatever the provider
\* answered.
C40_GradeWithinKey ==
  \A j \in JobIds :
    (task[j].kind = "mc" /\ jobs[j] # Absent
       /\ jobs[j].status = "completed") =>
      \A k \in 1..Len(jobs[j].results) :
        LET rec == jobs[j].results[k] IN
        /\ rec.grade.t = Len(task[j].key)
        /\ 0 <= rec.grade.c /\ rec.grade.c <= rec.grade.t
        /\ Len(rec.details) = rec.grade.t

====
